---- MODULE Spec2Model ----
(***************************************************************************)
(* Red-black tree with recorded operation snapshots (RedBlackTree class).  *)
(* The live tree is an arena: node ids are the numbers n of `node-${n}`,   *)
(* and the relations parent/left/right hold ids (NULL for null).           *)
(* A value of "m" below is the tree's fields together with the locals of   *)
(* the running insert/delete call (snapshots, previousNodes, label).       *)
(***************************************************************************)
EXTENDS Integers, Sequences, FiniteSets, TLC

\* ------------------------------------------------------------------ bounds
MaxVal == 3

MaxNodes == 4

MaxBuild == 5

MaxDeletes == 1

\* passes a fix-up loop is followed for before the model stops following it
MaxPasses == 8

\* length of the longest run of inserts followed from the empty tree
MaxRun == 7

Values == 1..MaxVal

BuildValues == 1..MaxBuild

RunValues == 1..MaxRun

NULL == -1

VARIABLES root, nodes, nodeCounter, lastOp, members, created

vars == <<root, nodes, nodeCounter, lastOp, members, created>>

\* ------------------------------------------------------- small helpers
\* Body applied to the value of v (v is evaluated once, as a statement's
\* result is before the next statement runs)
Let(v, Body(_)) == CHOOSE r \in {Body(x) : x \in {v}} : TRUE

MapSeq(s, F(_)) == [i \in 1..Len(s) |-> F(s[i])]

MaxOf(S) == CHOOSE x \in S : \A y \in S : y <= x

\* compact(...ids): drops the null/undefined ids
compact(ids) == SelectSeq(ids, LAMBDA id : id # NULL)

\* cloneNodes(nodes): a shallow copy of every export record
cloneNodes(ns) == MapSeq(ns, LAMBDA n : n)

\* mutant: the node is created black
RBNodeBlack(value) == [value |-> value, color |-> "black", left |-> NULL, right |-> NULL, parent |-> NULL]

\* RBNode as created by insert
RBNode(value) == [value |-> value, color |-> "red", left |-> NULL, right |-> NULL, parent |-> NULL]

\* field assignments on the live tree
SetColor(m, n, c) == [m EXCEPT !.nodes[n].color = c]

SetLeft(m, n, v) == [m EXCEPT !.nodes[n].left = v]

SetRight(m, n, v) == [m EXCEPT !.nodes[n].right = v]

SetParent(m, n, v) == [m EXCEPT !.nodes[n].parent = v]

\* ------------------------------------------------------- serializeTree
\* mutant: the traversal visits the left subtree before pushing the node
RECURSIVE traverseInOrder(_, _)
traverseInOrder(ns, node) ==
  Let(node, LAMBDA n :
    IF n = NULL THEN <<>>
    ELSE traverseInOrder(ns, ns[n].left)
         \o << [id |-> n, value |-> ns[n].value, color |-> ns[n].color,
                parentId |-> ns[n].parent, leftId |-> ns[n].left,
                rightId |-> ns[n].right] >>
         \o traverseInOrder(ns, ns[n].right))

\* traverse(node): pushes the node, then walks its left and right subtrees
RECURSIVE traverse(_, _)
traverse(ns, node) ==
  Let(node, LAMBDA n :
    IF n = NULL THEN <<>>
    ELSE << [id |-> n, value |-> ns[n].value, color |-> ns[n].color,
             parentId |-> ns[n].parent, leftId |-> ns[n].left,
             rightId |-> ns[n].right] >>
         \o traverse(ns, ns[n].left) \o traverse(ns, ns[n].right))

serializeTree(m) == traverse(m.nodes, m.root)

\* ------------------------------------------------------- diffSnapshots
HasId(ns, id) == \E i \in 1..Len(ns) : ns[i].id = id

\* Map.get(id) on a Map built from the list: the last entry with that id
MapGet(ns, id) == ns[MaxOf({i \in 1..Len(ns) : ns[i].id = id})]

IdValue(n) == [id |-> n.id, value |-> n.value]

\* mutant: the two lookups are confused, so added and removed change places
diffSnapshotsSwapped(previous, current) ==
  LET both == SelectSeq(current, LAMBDA n : HasId(previous, n.id))
  IN [ added |-> MapSeq(SelectSeq(previous, LAMBDA n : ~HasId(current, n.id)), IdValue),
       removed |-> MapSeq(SelectSeq(current, LAMBDA n : ~HasId(previous, n.id)), IdValue),
       recolored |-> MapSeq(SelectSeq(both, LAMBDA n : MapGet(previous, n.id).color # n.color),
                            LAMBDA n : [id |-> n.id, value |-> n.value,
                                        from |-> MapGet(previous, n.id).color, to |-> n.color]),
       moved |-> MapSeq(SelectSeq(both, LAMBDA n :
                              \/ MapGet(previous, n.id).parentId # n.parentId
                              \/ MapGet(previous, n.id).leftId # n.leftId
                              \/ MapGet(previous, n.id).rightId # n.rightId),
                        IdValue) ]

\* mutant: the relation test is an else-branch of the color test
diffSnapshotsExclusive(previous, current) ==
  LET both == SelectSeq(current, LAMBDA n : HasId(previous, n.id))
  IN [ added |-> MapSeq(SelectSeq(current, LAMBDA n : ~HasId(previous, n.id)), IdValue),
       removed |-> MapSeq(SelectSeq(previous, LAMBDA n : ~HasId(current, n.id)), IdValue),
       recolored |-> MapSeq(SelectSeq(both, LAMBDA n : MapGet(previous, n.id).color # n.color),
                            LAMBDA n : [id |-> n.id, value |-> n.value,
                                        from |-> MapGet(previous, n.id).color, to |-> n.color]),
       moved |-> MapSeq(SelectSeq(both, LAMBDA n :
                           /\ MapGet(previous, n.id).color = n.color
                           /\ \/ MapGet(previous, n.id).parentId # n.parentId
                              \/ MapGet(previous, n.id).leftId # n.leftId
                              \/ MapGet(previous, n.id).rightId # n.rightId),
                        IdValue) ]

diffSnapshots(previous, current) ==
  LET both == SelectSeq(current, LAMBDA n : HasId(previous, n.id))
  IN [ added |-> MapSeq(SelectSeq(current, LAMBDA n : ~HasId(previous, n.id)), IdValue),
       removed |-> MapSeq(SelectSeq(previous, LAMBDA n : ~HasId(current, n.id)), IdValue),
       recolored |-> MapSeq(SelectSeq(both, LAMBDA n : MapGet(previous, n.id).color # n.color),
                            LAMBDA n : [id |-> n.id, value |-> n.value,
                                        from |-> MapGet(previous, n.id).color, to |-> n.color]),
       moved |-> MapSeq(SelectSeq(both, LAMBDA n :
                              \/ MapGet(previous, n.id).parentId # n.parentId
                              \/ MapGet(previous, n.id).leftId # n.leftId
                              \/ MapGet(previous, n.id).rightId # n.rightId),
                        IdValue) ]

\* ------------------------------------------------------- record closure
\* the nodes still reachable from the root (the rest is garbage)
RECURSIVE Reach(_, _)
Reach(ns, node) ==
  Let(node, LAMBDA n :
    IF n = NULL THEN {} ELSE {n} \cup Reach(ns, ns[n].left) \cup Reach(ns, ns[n].right))

Live(m) == [n \in Reach(m.nodes, m.root) |-> m.nodes[n]]

\* mutant: the highlight ids are stored as supplied
TreeSnapshotUnfiltered(t, description, highlightNodeIds, ns) ==
  [idx |-> Len(t.snapshots),
   description |-> description,
   nodes |-> ns,
   highlightNodeIds |-> highlightNodeIds,
   changes |-> diffSnapshots(t.previousNodes, ns)]

\* the snapshot record pushes: idx is the list length that ends its id
TreeSnapshot(t, description, highlightNodeIds, ns) ==
  [idx |-> Len(t.snapshots),
   description |-> description,
   nodes |-> ns,
   highlightNodeIds |-> SelectSeq(highlightNodeIds, LAMBDA id : HasId(ns, id)),
   changes |-> diffSnapshots(t.previousNodes, ns)]

\* what an observer of the call sees right after a push: the live tree, the
\* snapshot as pushed and the length of the list (history only, the code
\* keeps none of it)
Observed(t, snap) ==
  [root |-> t.root, nodes |-> Live(t), appended |-> snap, length |-> Len(t.snapshots) + 1]

\* mutant: the exports hold the live nodes, so the color of a node in the
\* snapshots already pushed follows the tree
recordAliased(m, description, highlightNodeIds) ==
  Let(m, LAMBDA t :
  Let(serializeTree(t), LAMBDA ns :
  Let(TreeSnapshot(t, description, highlightNodeIds, ns), LAMBDA snap :
    [t EXCEPT !.snapshots =
                 Append(MapSeq(@, LAMBDA old :
                          [old EXCEPT !.nodes =
                             MapSeq(@, LAMBDA n :
                               IF n.id \in DOMAIN t.nodes
                               THEN [n EXCEPT !.color = t.nodes[n.id].color] ELSE n)]),
                        snap),
              !.previousNodes = cloneNodes(ns),
              !.trace = Append(@, Observed(t, snap))])))

record(m, description, highlightNodeIds) ==
  Let(m, LAMBDA t :
  Let(serializeTree(t), LAMBDA ns :
  Let(TreeSnapshot(t, description, highlightNodeIds, ns), LAMBDA snap :
    [t EXCEPT !.snapshots = Append(@, snap),
              !.previousNodes = cloneNodes(ns),
              !.trace = Append(@, Observed(t, snap))])))

\* ------------------------------------------------------- find / has
\* mutant: the descent of find goes to the wrong side
RECURSIVE findFromFlipped(_, _, _)
findFromFlipped(ns, current, value) ==
  Let(current, LAMBDA c :
    IF c = NULL THEN NULL
    ELSE IF value = ns[c].value THEN c
    ELSE findFromFlipped(ns, IF value > ns[c].value THEN ns[c].left ELSE ns[c].right, value))

RECURSIVE findFrom(_, _, _)
findFrom(ns, current, value) ==
  Let(current, LAMBDA c :
    IF c = NULL THEN NULL
    ELSE IF value = ns[c].value THEN c
    ELSE findFrom(ns, IF value < ns[c].value THEN ns[c].left ELSE ns[c].right, value))

find(m, value) == findFrom(m.nodes, m.root, value)

has(value) == findFrom(nodes, root, value) # NULL

\* ------------------------------------------------------- rotations
\* mutant: the left rotation leaves the links as they were
rotateLeftSkipped(m, x) == m

\* mutant: the subtree handed from y to x keeps y as its parent
rotateLeftStaleParent(m, x) ==
  Let(m, LAMBDA t :
    LET y == t.nodes[x].right
        yl == t.nodes[y].left
        xp == t.nodes[x].parent
    IN IF y = NULL THEN t
       ELSE
         Let(SetRight(t, x, yl), LAMBDA m2 :
         Let(SetParent(m2, y, xp), LAMBDA m3 :
         Let(IF xp = NULL THEN [m3 EXCEPT !.root = y]
             ELSE IF x = m3.nodes[xp].left THEN SetLeft(m3, xp, y)
             ELSE SetRight(m3, xp, y), LAMBDA m4 :
           SetParent(SetLeft(m4, y, x), x, y)))))

rotateLeft(m, x) ==
  Let(m, LAMBDA t :
    LET y == t.nodes[x].right
        yl == t.nodes[y].left
        xp == t.nodes[x].parent
    IN IF y = NULL THEN [t EXCEPT !.skipped = @ + 1]
       ELSE
         Let(SetRight([t EXCEPT !.rotated = @ + 1], x, yl), LAMBDA m1 :
         Let(IF yl # NULL THEN SetParent(m1, yl, x) ELSE m1, LAMBDA m2 :
         Let(SetParent(m2, y, xp), LAMBDA m3 :
         Let(IF xp = NULL THEN [m3 EXCEPT !.root = y]
             ELSE IF x = m3.nodes[xp].left THEN SetLeft(m3, xp, y)
             ELSE SetRight(m3, xp, y), LAMBDA m4 :
           SetParent(SetLeft(m4, y, x), x, y))))))

\* mutant: the right rotation also paints the node it moves down red
rotateRightRepainting(m, x) ==
  Let(m, LAMBDA t :
    LET y == t.nodes[x].left
        yr == t.nodes[y].right
        xp == t.nodes[x].parent
    IN IF y = NULL THEN [t EXCEPT !.skipped = @ + 1]
       ELSE
         Let(SetLeft([t EXCEPT !.rotated = @ + 1], x, yr), LAMBDA m1 :
         Let(IF yr # NULL THEN SetParent(m1, yr, x) ELSE m1, LAMBDA m2 :
         Let(SetParent(m2, y, xp), LAMBDA m3 :
         Let(IF xp = NULL THEN [m3 EXCEPT !.root = y]
             ELSE IF x = m3.nodes[xp].right THEN SetRight(m3, xp, y)
             ELSE SetLeft(m3, xp, y), LAMBDA m4 :
           SetColor(SetParent(SetRight(m4, y, x), x, y), x, "red"))))))

rotateRight(m, x) ==
  Let(m, LAMBDA t :
    LET y == t.nodes[x].left
        yr == t.nodes[y].right
        xp == t.nodes[x].parent
    IN IF y = NULL THEN [t EXCEPT !.skipped = @ + 1]
       ELSE
         Let(SetLeft([t EXCEPT !.rotated = @ + 1], x, yr), LAMBDA m1 :
         Let(IF yr # NULL THEN SetParent(m1, yr, x) ELSE m1, LAMBDA m2 :
         Let(SetParent(m2, y, xp), LAMBDA m3 :
         Let(IF xp = NULL THEN [m3 EXCEPT !.root = y]
             ELSE IF x = m3.nodes[xp].right THEN SetRight(m3, xp, y)
             ELSE SetLeft(m3, xp, y), LAMBDA m4 :
           SetParent(SetRight(m4, y, x), x, y))))))

\* ------------------------------------------------------- fixInsert
\* one pass of the uncle-is-red branch (both mirrors)
fixInsertRecolor(m, parent, uncle, grandParent) ==
  record(SetColor(SetColor(SetColor(m, parent, "black"), uncle, "black"), grandParent, "red"),
         <<"recolor", m.nodes[parent].value, m.nodes[uncle].value>>,
         <<parent, uncle, grandParent>>)

\* mutant: the parent is rotated left first even when the node is its left child
fixInsertLeftRotateAlways(m, node, parent, grandParent) ==
  Let(Let(rotateLeft(m, parent), LAMBDA r :
        record(r, <<"rotateLeft", r.nodes[parent].value>>,
               compact(<<parent, r.nodes[parent].parent>>))), LAMBDA m1 :
  Let(rotateRight(SetColor(SetColor(m1, parent, "black"), grandParent, "red"), grandParent),
      LAMBDA m4 :
    record(m4, <<"rotateRight", m4.nodes[grandParent].value>>,
           compact(<<parent, grandParent, m4.nodes[parent].parent>>))))

\* parent === grandParent.left, uncle black or absent
fixInsertLeftRotate(m, node, parent, grandParent) ==
  Let(IF node = m.nodes[parent].right
      THEN Let(rotateLeft(m, parent), LAMBDA r :
             record(r, <<"rotateLeft", r.nodes[parent].value>>,
                    compact(<<parent, r.nodes[parent].parent>>)))
      ELSE m, LAMBDA m1 :
  Let(rotateRight(SetColor(SetColor(m1, parent, "black"), grandParent, "red"), grandParent),
      LAMBDA m4 :
    record(m4, <<"rotateRight", m4.nodes[grandParent].value>>,
           compact(<<parent, grandParent, m4.nodes[parent].parent>>))))

\* mutant: only this mirror blackens the node that ends above the other two
fixInsertRightRotateRepaired(m, node, parent, grandParent) ==
  Let(IF node = m.nodes[parent].left
      THEN Let(rotateRight(m, parent), LAMBDA r :
             record(r, <<"rotateRight", r.nodes[parent].value>>,
                    compact(<<parent, r.nodes[parent].parent>>)))
      ELSE m, LAMBDA m1 :
  Let(rotateLeft(SetColor(SetColor(m1, m1.nodes[grandParent].right, "black"),
                          grandParent, "red"), grandParent),
      LAMBDA m4 :
    record(m4, <<"rotateLeft", m4.nodes[grandParent].value>>,
           compact(<<parent, grandParent, m4.nodes[parent].parent>>))))

\* parent === grandParent.right, uncle black or absent
fixInsertRightRotate(m, node, parent, grandParent) ==
  Let(IF node = m.nodes[parent].left
      THEN Let(rotateRight(m, parent), LAMBDA r :
             record(r, <<"rotateRight", r.nodes[parent].value>>,
                    compact(<<parent, r.nodes[parent].parent>>)))
      ELSE m, LAMBDA m1 :
  Let(rotateLeft(SetColor(SetColor(m1, parent, "black"), grandParent, "red"), grandParent),
      LAMBDA m4 :
    record(m4, <<"rotateLeft", m4.nodes[grandParent].value>>,
           compact(<<parent, grandParent, m4.nodes[parent].parent>>))))

\* mutant: a pass of the insert fix-up changes nothing and stays at the node
fixInsertStepStuck(m, node, parent, grandParent) == [m |-> m, node |-> node]

\* the body of the while loop, entered with node.parent red and not null
fixInsertStep(m, node, parent, grandParent) ==
  IF parent = m.nodes[grandParent].left
  THEN LET uncle == m.nodes[grandParent].right IN
       IF uncle # NULL /\ m.nodes[uncle].color = "red"
       THEN [m |-> fixInsertRecolor(m, parent, uncle, grandParent), node |-> grandParent]
       ELSE [m |-> fixInsertLeftRotate(m, node, parent, grandParent),
             node |-> IF node = m.nodes[parent].right THEN parent ELSE node]
  ELSE LET uncle == m.nodes[grandParent].left IN
       IF uncle # NULL /\ m.nodes[uncle].color = "red"
       THEN [m |-> fixInsertRecolor(m, parent, uncle, grandParent), node |-> grandParent]
       ELSE [m |-> fixInsertRightRotate(m, node, parent, grandParent),
             node |-> IF node = m.nodes[parent].left THEN parent ELSE node]

RECURSIVE fixInsert(_, _)
fixInsert(m, node) ==
  Let(<<m, node>>, LAMBDA a :
    LET t == a[1]
        n == a[2]
        parent == t.nodes[n].parent
    IN IF ~(n # t.root /\ parent # NULL /\ t.nodes[parent].color = "red") THEN t
       ELSE IF t.passes >= MaxPasses THEN t
       ELSE IF t.nodes[parent].parent = NULL THEN [t EXCEPT !.passes = @ + 1]
       ELSE Let(fixInsertStep([t EXCEPT !.passes = @ + 1], n, parent,
                              t.nodes[parent].parent), LAMBDA s :
              fixInsert(s.m, s.node)))

\* ------------------------------------------------------- insert
\* the descent loop of insert: the node under which the value is attached
RECURSIVE descend(_, _, _, _)
descend(ns, parent, current, value) ==
  Let(current, LAMBDA c :
    IF c = NULL THEN parent
    ELSE descend(ns, c, IF value < ns[c].value THEN ns[c].left ELSE ns[c].right, value))

\* mutant: the first snapshot of a call is compared with no nodes at all
BeginFromEmpty(st) == [root |-> st.root, nodes |-> st.nodes, nodeCounter |-> st.nodeCounter,
                       snapshots |-> <<>>, label |-> <<>>,
                       previousNodes |-> <<>>,
                       trace |-> <<>>, created |-> st.created,
                       passes |-> 0, rotated |-> 0, skipped |-> 0]

\* the state insert/delete start from: the fields plus the call's locals;
\* passes counts the passes of the fix-up loops, rotated the rotations
\* performed and skipped the rotation calls that returned early
Begin(st) == [root |-> st.root, nodes |-> st.nodes, nodeCounter |-> st.nodeCounter,
              snapshots |-> <<>>, label |-> <<>>,
              previousNodes |-> cloneNodes(traverse(st.nodes, st.root)),
              trace |-> <<>>, created |-> st.created,
              passes |-> 0, rotated |-> 0, skipped |-> 0]

\* mutant: the closing snapshot is taken without recoloring the root
keepRootBlackNoRecolor(m) ==
  Let(m, LAMBDA t :
    IF t.root # NULL THEN record(t, <<"keepRootBlack">>, <<t.root>>) ELSE t)

\* mutant: the closing snapshot is taken only when the root is not black yet
keepRootBlackIfRed(m) ==
  Let(m, LAMBDA t :
    IF t.root # NULL /\ t.nodes[t.root].color # "black"
    THEN record(SetColor(t, t.root, "black"), <<"keepRootBlack">>, <<t.root>>)
    ELSE t)

\* mutant: the closing snapshot is pushed before the root is blackened
keepRootBlackAfterRecord(m) ==
  Let(m, LAMBDA t :
    IF t.root # NULL
    THEN SetColor(record(t, <<"keepRootBlack">>, <<t.root>>), t.root, "black")
    ELSE t)

keepRootBlack(m) ==
  Let(m, LAMBDA t :
    IF t.root # NULL
    THEN record(SetColor(t, t.root, "black"), <<"keepRootBlack">>, <<t.root>>)
    ELSE t)

\* mutant: the node id is taken before the value is looked up
insertExistingTakesId(m, value, existing) ==
  [record(m, <<"exists", value>>, <<existing>>)
     EXCEPT !.label = <<"insertCancel", value>>, !.nodeCounter = @ + 1]

\* the early return of insert on a value already present
insertExisting(m, value, existing) ==
  [record(m, <<"exists", value>>, <<existing>>) EXCEPT !.label = <<"insertCancel", value>>]

\* the new red node attached under parent (or as the root), with its snapshot
insertAttach(m, newNode, parent, value) ==
  Let(SetParent(m, newNode, parent), LAMBDA m2 :
    IF parent = NULL
    THEN record([m2 EXCEPT !.root = newNode], <<"insertRoot", value>>, <<newNode>>)
    ELSE IF value < m2.nodes[parent].value
    THEN record(SetLeft(m2, parent, newNode),
                <<"insertLeft", value, m2.nodes[parent].value>>, <<newNode, parent>>)
    ELSE record(SetRight(m2, parent, newNode),
                <<"insertRight", value, m2.nodes[parent].value>>, <<newNode, parent>>))

insert(m, value) ==
  Let(m, LAMBDA t :
  Let(find(t, value), LAMBDA existing :
    IF existing # NULL
    THEN insertExisting(t, value, existing)
    ELSE
      Let([t EXCEPT !.nodeCounter = @ + 1,
                    !.nodes = (t.nodeCounter :> RBNode(value)) @@ @,
                    !.created = Append(@, t.nodeCounter)], LAMBDA m1 :
      Let(descend(m1.nodes, NULL, m1.root, value), LAMBDA parent :
      Let(insertAttach(m1, t.nodeCounter, parent, value), LAMBDA m3 :
      Let(fixInsert(m3, t.nodeCounter), LAMBDA m4 :
        [keepRootBlack(m4) EXCEPT !.label = <<"insert", value>>]))))))

\* ------------------------------------------------------- transplant / minimum
\* mutant: transplant always writes the parent's left slot
transplantLeftOnly(m, u, v) ==
  Let(m, LAMBDA t :
    LET up == t.nodes[u].parent IN
    Let(IF up = NULL THEN [t EXCEPT !.root = v] ELSE SetLeft(t, up, v), LAMBDA m1 :
      IF v # NULL THEN SetParent(m1, v, up) ELSE m1))

transplant(m, u, v) ==
  Let(m, LAMBDA t :
    LET up == t.nodes[u].parent IN
    Let(IF up = NULL THEN [t EXCEPT !.root = v]
        ELSE IF u = t.nodes[up].left THEN SetLeft(t, up, v)
        ELSE SetRight(t, up, v), LAMBDA m1 :
      IF v # NULL THEN SetParent(m1, v, up) ELSE m1))

\* mutant: minimum does not descend
minimumNoDescent(m, node) == node

RECURSIVE minimum(_, _)
minimum(m, node) ==
  Let(node, LAMBDA current :
    IF m.nodes[current].left # NULL THEN minimum(m, m.nodes[current].left) ELSE current)

\* ------------------------------------------------------- fixDelete
\* optional chaining: n?.left ?? null, n?.right ?? null, n?.parent ?? null
LeftOf(m, n) == IF n = NULL THEN NULL ELSE m.nodes[n].left

RightOf(m, n) == IF n = NULL THEN NULL ELSE m.nodes[n].right

ParentOf(m, n) == IF n = NULL THEN NULL ELSE m.nodes[n].parent

isBlack(m, target) == target = NULL \/ m.nodes[target].color = "black"

\* the result of one pass of the loop body
LoopState(m, current, currentParent, done) ==
  [m |-> m, current |-> current, currentParent |-> currentParent, done |-> done]

\* the sibling is red (current is the left child): recolor, rotate the parent left
fixDeleteLeftRedSibling(m, currentParent, sibling) ==
  Let(SetColor(m, sibling, "black"), LAMBDA a :
    IF currentParent # NULL
    THEN Let(record(SetColor(a, currentParent, "red"), <<"siblingRedPrepLeft">>,
                    compact(<<currentParent, sibling, LeftOf(a, sibling), RightOf(a, sibling)>>)),
             LAMBDA c :
         Let(rotateLeft(c, currentParent), LAMBDA d :
           record(d, <<"rotateLeft", d.nodes[currentParent].value>>,
                  compact(<<sibling, currentParent, ParentOf(d, currentParent),
                            LeftOf(d, sibling), RightOf(d, sibling)>>))))
    ELSE a)

\* the sibling has a red child (current is the left child): the terminal rotations
fixDeleteLeftRedNephew(m, currentParent, sibling) ==
  Let(IF isBlack(m, RightOf(m, sibling))
      THEN Let(IF LeftOf(m, sibling) # NULL
               THEN SetColor(m, LeftOf(m, sibling), "black") ELSE m, LAMBDA a :
             IF sibling # NULL
             THEN rotateRight(record(SetColor(a, sibling, "red"), <<"siblingLeftRed">>,
                                     compact(<<sibling, LeftOf(a, sibling), RightOf(a, sibling)>>)),
                              sibling)
             ELSE a)
      ELSE m, LAMBDA m2 :
  Let(IF isBlack(m, RightOf(m, sibling)) THEN RightOf(m2, currentParent) ELSE sibling,
      LAMBDA sibling2 :
  Let(IF sibling2 # NULL
      THEN Let(SetColor(m2, sibling2,
                        IF currentParent # NULL THEN m2.nodes[currentParent].color ELSE "black"),
               LAMBDA a :
             IF RightOf(a, sibling2) # NULL
             THEN SetColor(a, RightOf(a, sibling2), "black") ELSE a)
      ELSE m2, LAMBDA m3 :
    IF currentParent # NULL
    THEN rotateLeft(record(SetColor(m3, currentParent, "black"), <<"siblingRightRed">>,
                           compact(<<currentParent, sibling2,
                                     RightOf(m3, sibling2), LeftOf(m3, sibling2)>>)),
                    currentParent)
    ELSE m3)))

\* current === currentParent.left: the sibling is the right child
fixDeleteLeft(m, current, currentParent) ==
  LET sibling0 == RightOf(m, currentParent) IN
  IF sibling0 = NULL
  THEN LoopState(m, currentParent, ParentOf(m, currentParent), FALSE)
  ELSE
    Let(IF m.nodes[sibling0].color = "red"
        THEN fixDeleteLeftRedSibling(m, currentParent, sibling0) ELSE m, LAMBDA m1 :
    Let(IF m.nodes[sibling0].color = "red" THEN RightOf(m1, currentParent) ELSE sibling0,
        LAMBDA sibling :
      IF isBlack(m1, LeftOf(m1, sibling)) /\ isBlack(m1, RightOf(m1, sibling))
      THEN Let(IF sibling # NULL
               THEN record(SetColor(m1, sibling, "red"), <<"siblingBlackChildren">>,
                           compact(<<sibling, currentParent>>))
               ELSE m1, LAMBDA m2 :
             LoopState(m2, currentParent, ParentOf(m2, currentParent), FALSE))
      ELSE Let(fixDeleteLeftRedNephew(m1, currentParent, sibling), LAMBDA m4 :
             LoopState(m4, m4.root, currentParent, TRUE))))

\* the sibling is red (current is the right child): recolor, rotate the parent right
fixDeleteRightRedSibling(m, currentParent, sibling) ==
  Let(SetColor(m, sibling, "black"), LAMBDA a :
    IF currentParent # NULL
    THEN Let(record(SetColor(a, currentParent, "red"), <<"siblingRedPrepRight">>,
                    compact(<<currentParent, sibling, LeftOf(a, sibling), RightOf(a, sibling)>>)),
             LAMBDA c :
         Let(rotateRight(c, currentParent), LAMBDA d :
           record(d, <<"rotateRight", d.nodes[currentParent].value>>,
                  compact(<<sibling, currentParent, ParentOf(d, currentParent),
                            LeftOf(d, sibling), RightOf(d, sibling)>>))))
    ELSE a)

\* the sibling has a red child (current is the right child): the terminal rotations
fixDeleteRightRedNephew(m, currentParent, sibling) ==
  Let(IF isBlack(m, LeftOf(m, sibling))
      THEN Let(IF RightOf(m, sibling) # NULL
               THEN SetColor(m, RightOf(m, sibling), "black") ELSE m, LAMBDA a :
             IF sibling # NULL
             THEN rotateLeft(record(SetColor(a, sibling, "red"), <<"siblingRightRed">>,
                                    compact(<<sibling, LeftOf(a, sibling), RightOf(a, sibling)>>)),
                             sibling)
             ELSE a)
      ELSE m, LAMBDA m2 :
  Let(IF isBlack(m, LeftOf(m, sibling)) THEN LeftOf(m2, currentParent) ELSE sibling,
      LAMBDA sibling2 :
  Let(IF sibling2 # NULL
      THEN Let(SetColor(m2, sibling2,
                        IF currentParent # NULL THEN m2.nodes[currentParent].color ELSE "black"),
               LAMBDA a :
             IF LeftOf(a, sibling2) # NULL
             THEN SetColor(a, LeftOf(a, sibling2), "black") ELSE a)
      ELSE m2, LAMBDA m3 :
    IF currentParent # NULL
    THEN rotateRight(record(SetColor(m3, currentParent, "black"), <<"siblingLeftRed">>,
                            compact(<<currentParent, sibling2,
                                      LeftOf(m3, sibling2), RightOf(m3, sibling2)>>)),
                     currentParent)
    ELSE m3)))

\* the mirrored branch: the sibling is the left child
fixDeleteRight(m, current, currentParent) ==
  LET sibling0 == LeftOf(m, currentParent) IN
  IF sibling0 = NULL
  THEN LoopState(m, currentParent, ParentOf(m, currentParent), FALSE)
  ELSE
    Let(IF m.nodes[sibling0].color = "red"
        THEN fixDeleteRightRedSibling(m, currentParent, sibling0) ELSE m, LAMBDA m1 :
    Let(IF m.nodes[sibling0].color = "red" THEN LeftOf(m1, currentParent) ELSE sibling0,
        LAMBDA sibling :
      IF isBlack(m1, RightOf(m1, sibling)) /\ isBlack(m1, LeftOf(m1, sibling))
      THEN Let(IF sibling # NULL
               THEN record(SetColor(m1, sibling, "red"), <<"siblingBlackChildren">>,
                           compact(<<sibling, currentParent>>))
               ELSE m1, LAMBDA m2 :
             LoopState(m2, currentParent, ParentOf(m2, currentParent), FALSE))
      ELSE Let(fixDeleteRightRedNephew(m1, currentParent, sibling), LAMBDA m4 :
             LoopState(m4, m4.root, currentParent, TRUE))))

\* the while loop of fixDelete
RECURSIVE fixDeleteLoop(_, _, _)
fixDeleteLoop(m, current, currentParent) ==
  Let(<<m, current, currentParent>>, LAMBDA a :
    IF ~(a[2] # a[1].root /\ (a[2] = NULL \/ a[1].nodes[a[2]].color = "black"))
    THEN LoopState(a[1], a[2], a[3], TRUE)
    ELSE IF a[1].passes >= MaxPasses THEN LoopState(a[1], a[2], a[3], TRUE)
    ELSE Let(IF a[2] = LeftOf(a[1], a[3])
             THEN fixDeleteLeft([a[1] EXCEPT !.passes = @ + 1], a[2], a[3])
             ELSE fixDeleteRight([a[1] EXCEPT !.passes = @ + 1], a[2], a[3]), LAMBDA s :
           IF s.done THEN s ELSE fixDeleteLoop(s.m, s.current, s.currentParent)))

\* mutant: the delete fix-up only blackens the node it is handed
fixDeleteNoLoop(m, node, parent) ==
  IF node # NULL
  THEN record(SetColor(m, node, "black"), <<"finalBlack">>, <<node>>)
  ELSE m

fixDelete(m, node, parent) ==
  Let(fixDeleteLoop(m, node, parent), LAMBDA s :
    IF s.current # NULL
    THEN record(SetColor(s.m, s.current, "black"), <<"finalBlack">>, <<s.current>>)
    ELSE s.m)

\* ------------------------------------------------------- delete
\* the result of the structural part of delete
Spliced(m, yOriginalColor, x, xParent) ==
  [m |-> m, yOriginalColor |-> yOriginalColor, x |-> x, xParent |-> xParent]

\* y is not z's child: y is detached and takes over z's right subtree
deletePullUp(m, z, y) ==
  Let(transplant(m, y, m.nodes[y].right), LAMBDA a :
  Let(record(a, <<"pullUp", a.nodes[y].value>>,
             compact(<<y, a.nodes[y].right, a.nodes[y].parent>>)), LAMBDA b :
  Let(SetRight(b, y, b.nodes[z].right), LAMBDA c :
    IF c.nodes[y].right # NULL THEN SetParent(c, c.nodes[y].right, y) ELSE c)))

\* the two-children branch: y is the minimum of z.right
deleteTwoChildren(m, z, value) ==
  Let(minimum(m, m.nodes[z].right), LAMBDA y :
    LET x == m.nodes[y].right
        direct == m.nodes[y].parent = z
    IN
    Let(IF direct
        THEN (IF x # NULL THEN SetParent(m, x, y) ELSE m)
        ELSE deletePullUp(m, z, y), LAMBDA m1 :
    Let(transplant(m1, z, y), LAMBDA m2 :
    Let(SetLeft(m2, y, m2.nodes[z].left), LAMBDA m3 :
    Let(IF m3.nodes[y].left # NULL THEN SetParent(m3, m3.nodes[y].left, y) ELSE m3, LAMBDA m4 :
    Let(SetColor(m4, y, m4.nodes[z].color), LAMBDA m5 :
      Spliced(record(m5, <<"substitute", value, m5.nodes[y].value>>,
                     compact(<<y, m5.nodes[y].left, m5.nodes[y].right>>)),
              m.nodes[y].color, x, IF direct THEN y ELSE m.nodes[y].parent)))))))

\* the branches of delete on the target's children
deleteSplice(m, z, value) ==
  IF m.nodes[z].left = NULL
  THEN Spliced(record(transplant(m, z, m.nodes[z].right), <<"replaceByRight", value>>,
                      compact(<<z, m.nodes[z].right, m.nodes[z].parent>>)),
               m.nodes[z].color, m.nodes[z].right, m.nodes[z].parent)
  ELSE IF m.nodes[z].right = NULL
  THEN Spliced(record(transplant(m, z, m.nodes[z].left), <<"replaceByLeft", value>>,
                      compact(<<z, m.nodes[z].left, m.nodes[z].parent>>)),
               m.nodes[z].color, m.nodes[z].left, m.nodes[z].parent)
  ELSE deleteTwoChildren(m, z, value)

\* mutant: the missing value is reported under the label of a delete
deleteMissingLabelled(m, value) ==
  [record(m, <<"notFound", value>>, <<>>) EXCEPT !.label = <<"delete", value>>]

\* the early return of delete on a value not present
deleteMissing(m, value) ==
  [record(m, <<"notFound", value>>, <<>>) EXCEPT !.label = <<"deleteCancel", value>>]

\* mutant: the closing snapshot of delete is the root-blackening one only
deleteCloseRootOnly(m) ==
  Let(m, LAMBDA t : IF t.root # NULL THEN keepRootBlack(t) ELSE t)

\* mutant: the counter follows the number of nodes and goes down on a delete
deleteCloseCountsDown(m) ==
  Let(m, LAMBDA t :
    [(IF t.root # NULL THEN keepRootBlack(t) ELSE record(t, <<"empty">>, <<>>))
       EXCEPT !.nodeCounter = @ - 1])

\* the closing snapshot of delete
deleteClose(m) ==
  Let(m, LAMBDA t :
    IF t.root # NULL THEN keepRootBlack(t) ELSE record(t, <<"empty">>, <<>>))

delete(m, value) ==
  Let(m, LAMBDA t :
  Let(find(t, value), LAMBDA target :
    IF target = NULL
    THEN deleteMissing(t, value)
    ELSE
      Let(record(t, <<"deleteNode", value>>, <<target>>), LAMBDA m1 :
      Let(deleteSplice(m1, target, value), LAMBDA s :
      Let(IF s.yOriginalColor = "black" THEN fixDelete(s.m, s.x, s.xParent) ELSE s.m,
          LAMBDA m2 :
        [deleteClose(m2) EXCEPT !.label = <<"delete", value>>])))))

\* ------------------------------------------------------- state machine
\* lastOp is the call just returned: its kind and argument, the returned
\* OperationRecord (label, snapshots), the export and counter at call time,
\* and what was observed at each push of the call
NoOp(op) == [op |-> op, value |-> 0, label |-> <<>>, snapshots |-> <<>>,
             before |-> <<>>, counterBefore |-> 0, trace |-> <<>>,
             passes |-> 0, rotated |-> 0, skipped |-> 0]

\* a freshly constructed (or reset) tree; members is the plain set of
\* integers driven by the same calls, created the ids given to nodes so far
Empty(op) == [root |-> NULL, nodes |-> << >>, nodeCounter |-> 0,
              lastOp |-> NoOp(op), members |-> {}, created |-> <<>>]

State == [root |-> root, nodes |-> nodes, nodeCounter |-> nodeCounter,
          lastOp |-> lastOp, members |-> members, created |-> created]

\* the state after tree.insert(v) / tree.delete(v) returns, called in state st
Call(st, op, v) ==
  Let(IF op = "insert" THEN insert(Begin(st), v) ELSE delete(Begin(st), v), LAMBDA m :
    [root |-> m.root, nodes |-> Live(m), nodeCounter |-> m.nodeCounter,
     lastOp |-> [op |-> op, value |-> v, label |-> m.label, snapshots |-> m.snapshots,
                 before |-> traverse(st.nodes, st.root), counterBefore |-> st.nodeCounter,
                 trace |-> m.trace,
                 passes |-> m.passes, rotated |-> m.rotated, skipped |-> m.skipped],
     members |-> IF op = "insert" THEN st.members \cup {v} ELSE st.members \ {v},
     created |-> m.created])

Install(st) ==
  \E s \in {st} :
     /\ root' = s.root
     /\ nodes' = s.nodes
     /\ nodeCounter' = s.nodeCounter
     /\ lastOp' = s.lastOp
     /\ members' = s.members
     /\ created' = s.created

\* the fields as st gives them
Start(st) ==
  /\ root = st.root
  /\ nodes = st.nodes
  /\ nodeCounter = st.nodeCounter
  /\ lastOp = st.lastOp
  /\ members = st.members
  /\ created = st.created

Init == Start(Empty("none"))

\* tree.insert(v)
Insert(v) ==
  /\ has(v) \/ nodeCounter < MaxNodes
  /\ Install(Call(State, "insert", v))

\* tree.delete(v)
Delete(v) == Install(Call(State, "delete", v))

\* mutant: reset drops the tree and keeps counting ids where it was
ResetKeepsCounter ==
  Install([Empty("reset") EXCEPT !.nodeCounter = nodeCounter,
                                 !.lastOp.before = traverse(nodes, root),
                                 !.lastOp.counterBefore = nodeCounter])

\* tree.reset(); lastOp keeps the export and counter at call time
Reset ==
  Install([Empty("reset") EXCEPT !.lastOp.before = traverse(nodes, root),
                                 !.lastOp.counterBefore = nodeCounter])

Next ==
  \/ \E v \in Values : Insert(v)
  \/ \E v \in Values : Delete(v)
  \/ Reset

Spec == Init /\ [][Next]_vars

\* insert calls only, from the empty tree
NextInsert == \E v \in BuildValues : Insert(v)

SpecInsert == Init /\ [][NextInsert]_vars

\* longer runs of inserts of new values only, from the empty tree
NextInsertRun ==
  \E v \in RunValues : ~has(v) /\ nodeCounter < MaxRun /\ Install(Call(State, "insert", v))

SpecInsertRun == Init /\ [][NextInsertRun]_vars

\* the trees built by k inserts of distinct values into the empty tree
RECURSIVE Built(_)
Built(k) ==
  IF k = 0 THEN {Empty("none")}
  ELSE {Call(sv[1], "insert", sv[2]) :
          sv \in {tv \in Built(k - 1) \X BuildValues : tv[2] \notin tv[1].members}}

\* at most MaxDeletes deletes of present values on a tree built by at most
\* MaxBuild inserts (the nodes created and no longer in the tree are the deleted)
InitBuilt == \E k \in 0..MaxBuild : \E st \in Built(k) : Start(st)

NextDelete ==
  \E v \in BuildValues :
     /\ has(v)
     /\ nodeCounter - Cardinality(members) < MaxDeletes
     /\ Delete(v)

SpecBuilt == InitBuilt /\ [][NextDelete]_vars

\* =================================================================
\* Properties of the tree and of the returned records
\* =================================================================

\* the live nodes, reached from the root
LiveIds == Reach(nodes, root)

\* invariant 1: every node is red or black
ColorsValid == \A n \in LiveIds : nodes[n].color \in {"red", "black"}

\* invariant 3: no red node has a red child (an absent child counts as black)
NoRedRed ==
  \A n \in LiveIds : nodes[n].color = "red" =>
     /\ nodes[n].left # NULL => nodes[nodes[n].left].color # "red"
     /\ nodes[n].right # NULL => nodes[nodes[n].right].color # "red"

\* the number of black nodes on every path from n down to an absent child,
\* or -1 when two such paths differ
RECURSIVE BlackHeight(_, _)
BlackHeight(ns, n) ==
  IF n = NULL THEN 0
  ELSE LET l == BlackHeight(ns, ns[n].left)
           r == BlackHeight(ns, ns[n].right)
       IN IF l = -1 \/ r = -1 \/ l # r THEN -1
          ELSE l + (IF ns[n].color = "black" THEN 1 ELSE 0)

\* invariants 2 and 4: uniform black height below every node
BlackHeightUniform == BlackHeight(nodes, root) # -1

\* invariant 5: the root is black
RootBlack == root # NULL => nodes[root].color = "black"

RedBlackInvariants == ColorsValid /\ NoRedRed /\ BlackHeightUniform /\ RootBlack

\* in-order value sequence of the live tree
RECURSIVE InOrder(_, _)
InOrder(ns, n) ==
  IF n = NULL THEN <<>>
  ELSE InOrder(ns, ns[n].left) \o <<ns[n].value>> \o InOrder(ns, ns[n].right)

\* in-order value sequence of the tree rebuilt from an export, from node id
RECURSIVE ExportInOrder(_, _)
ExportInOrder(ex, id) ==
  IF id = NULL THEN <<>>
  ELSE LET e == MapGet(ex, id)
       IN ExportInOrder(ex, e.leftId) \o <<e.value>> \o ExportInOrder(ex, e.rightId)

\* the id of the root of an export (NULL when it is empty)
ExportRoot(ex) ==
  IF \E i \in 1..Len(ex) : ex[i].parentId = NULL
  THEN ex[CHOOSE i \in 1..Len(ex) : ex[i].parentId = NULL].id
  ELSE NULL

\* the values held in an export
ExportValues(ex) == {ex[i].value : i \in 1..Len(ex)}

\* the entry of an export holding value v
EntryOfValue(ex, v) == ex[CHOOSE i \in 1..Len(ex) : ex[i].value = v]

\* the call just returned
IsInsert == lastOp.op = "insert"

IsDelete == lastOp.op = "delete"

WasPresent == lastOp.value \in ExportValues(lastOp.before)

Snaps == lastOp.snapshots

LastSnap == Snaps[Len(Snaps)]

\* ----------------------------------------------------------------- C1
\* C1: after each insert of a sequence of inserts from the empty tree, the
\* tree satisfies the five red-black invariants.  (Checked under SpecInsert;
\* violated: insert 1, 3, 2 leaves root 2 black with 1 red and 3 black.)
C1_InsertKeepsRedBlack == RedBlackInvariants

\* ----------------------------------------------------------------- C2
\* C2: after every insert and delete, cancelled or not, the tree satisfies
\* the five red-black invariants.  (Violated, by the same zig-zag insert.)
C2_OperationsKeepRedBlack == lastOp.op \in {"insert", "delete"} => RedBlackInvariants

\* ----------------------------------------------------------------- C3
\* C3: has(v) is true exactly for the values in the plain set driven by the
\* same insert, delete and reset calls.
C3_HasAgreesWithSet == \A v \in Values : has(v) <=> v \in members

\* a state where membership was changed by inserts, a delete and a reset
C3_Witness ==
  /\ IsDelete /\ WasPresent
  /\ members # {} /\ members # Values
  /\ \E v \in Values : has(v)
  /\ ~has(lastOp.value)

\* ----------------------------------------------------------------- C4
\* C4: after every completed insert or delete the root, if any, is black.
C4_RootBlackAfterOperation == lastOp.op \in {"insert", "delete"} => RootBlack

\* the closing step mattered: the snapshot before the last showed a red root
C4_Witness ==
  /\ IsInsert
  /\ Len(lastOp.before) >= 2
  /\ root # NULL
  /\ Len(Snaps) >= 2
  /\ MapGet(Snaps[Len(Snaps) - 1].nodes, ExportRoot(Snaps[Len(Snaps) - 1].nodes)).color = "red"

\* ----------------------------------------------------------------- C5
\* C5: insert(v) with v already present leaves the tree (nodes, colors,
\* relations) and the id counter unchanged and returns one snapshot, a
\* cancelled label, and a highlight list holding exactly the id of the
\* existing node.
C5_DuplicateInsertCancelled ==
  (IsInsert /\ WasPresent) =>
     /\ traverse(nodes, root) = lastOp.before
     /\ nodeCounter = lastOp.counterBefore
     /\ Len(Snaps) = 1
     /\ lastOp.label = <<"insertCancel", lastOp.value>>
     /\ Snaps[1].highlightNodeIds = <<EntryOfValue(lastOp.before, lastOp.value).id>>

C5_Witness == IsInsert /\ WasPresent /\ Len(lastOp.before) >= 2 /\ lastOp.value # nodes[root].value

\* ----------------------------------------------------------------- C6
\* C6: delete(v) with v absent (also on the empty tree) leaves the tree and
\* its in-order value sequence unchanged and returns one informational
\* snapshot with no highlighted ids and a cancelled label.
C6_DeleteAbsentCancelled ==
  (IsDelete /\ ~WasPresent) =>
     /\ traverse(nodes, root) = lastOp.before
     /\ InOrder(nodes, root) = ExportInOrder(lastOp.before, ExportRoot(lastOp.before))
     /\ Len(Snaps) = 1
     /\ Snaps[1].description = <<"notFound", lastOp.value>>
     /\ Snaps[1].highlightNodeIds = <<>>
     /\ lastOp.label = <<"deleteCancel", lastOp.value>>

C6_Witness == IsDelete /\ ~WasPresent /\ Len(lastOp.before) >= 2

\* ----------------------------------------------------------------- C7
\* C7: after delete(v) of a present value the in-order value sequence is the
\* previous one with v removed and every other value kept.
C7_DeleteRemovesExactlyValue ==
  (IsDelete /\ WasPresent) =>
     InOrder(nodes, root) =
        SelectSeq(ExportInOrder(lastOp.before, ExportRoot(lastOp.before)),
                  LAMBDA w : w # lastOp.value)

\* the target of the delete, as the export at call time shows it
Target == EntryOfValue(lastOp.before, lastOp.value)

TwoChildren == IsDelete /\ WasPresent /\ Target.leftId # NULL /\ Target.rightId # NULL

C7_Witness == TwoChildren /\ Len(lastOp.before) >= 4 /\ Target.parentId # NULL

\* ----------------------------------------------------------------- C8
\* the substitution snapshot of a two-children delete
SubstIdx == CHOOSE i \in 1..Len(Snaps) : Snaps[i].description[1] = "substitute"

\* the id in the slot the target occupied (its parent's child slot, or the root)
SlotOccupant(ex) ==
  IF Target.parentId = NULL THEN ExportRoot(ex)
  ELSE IF MapGet(lastOp.before, Target.parentId).leftId = Target.id
       THEN MapGet(ex, Target.parentId).leftId
       ELSE MapGet(ex, Target.parentId).rightId

\* the minimum of the target's right subtree at call time
SuccessorValue == ExportInOrder(lastOp.before, Target.rightId)[1]

\* C8: in a two-children delete the node moved into the target's place is the
\* minimum of the target's right subtree; in the substitution snapshot it keeps
\* its id and value, has the target's color and occupies the target's parent
\* slot with the target's left child as its left child.
C8_SuccessorTakesTargetPlace ==
  TwoChildren =>
     /\ \E i \in 1..Len(Snaps) : Snaps[i].description[1] = "substitute"
     /\ LET ex == Snaps[SubstIdx].nodes
            y == MapGet(ex, SlotOccupant(ex))
        IN /\ y.value = SuccessorValue
           /\ y.id = EntryOfValue(lastOp.before, SuccessorValue).id
           /\ y.color = Target.color
           /\ y.parentId = Target.parentId
           /\ y.leftId = Target.leftId
           /\ MapGet(ex, Target.leftId).parentId = y.id

\* the target is not the root and its color differs from the successor's
C8_Witness ==
  /\ TwoChildren
  /\ Target.parentId # NULL
  /\ EntryOfValue(lastOp.before, SuccessorValue).color # Target.color

\* ----------------------------------------------------------------- C9
\* C9 as stated: insert(v) into an empty tree returns exactly one snapshot,
\* whose export is the single node v colored black.
C9_Original ==
  (IsInsert /\ lastOp.before = <<>>) =>
     /\ Len(Snaps) = 1
     /\ Len(Snaps[1].nodes) = 1
     /\ Snaps[1].nodes[1].value = lastOp.value
     /\ Snaps[1].nodes[1].color = "black"

\* C9 amended: insert(v) into an empty tree returns exactly two snapshots, each
\* exporting the single node v: the first (the attachment) shows it red, the
\* second (the closing root-blackening) shows it black.
C9_EmptyInsertTwoSnapshots ==
  (IsInsert /\ lastOp.before = <<>>) =>
     /\ Len(Snaps) = 2
     /\ \A i \in 1..2 : /\ Len(Snaps[i].nodes) = 1
                        /\ Snaps[i].nodes[1].value = lastOp.value
                        /\ Snaps[i].nodes[1].parentId = NULL
     /\ Snaps[1].nodes[1].color = "red"
     /\ Snaps[2].nodes[1].color = "black"
     /\ Snaps[2].nodes[1].id = Snaps[1].nodes[1].id

C9_Witness == IsInsert /\ lastOp.before = <<>> /\ root # NULL /\ lastOp.counterBefore > 0

\* ----------------------------------------------------------------- C10
NoChanges(c) == c.added = <<>> /\ c.removed = <<>> /\ c.recolored = <<>> /\ c.moved = <<>>

\* C10: every non-cancelled insert ends with the root-blackening snapshot,
\* emitted also when the root is already black (its diff is then empty); the
\* last snapshot shows a black root.
C10_InsertClosesWithBlackRoot ==
  (IsInsert /\ ~WasPresent) =>
     /\ Len(Snaps) >= 2
     /\ LastSnap.description = <<"keepRootBlack">>
     /\ MapGet(LastSnap.nodes, ExportRoot(LastSnap.nodes)).color = "black"
     /\ LastSnap.highlightNodeIds = <<ExportRoot(LastSnap.nodes)>>
     /\ LET prev == Snaps[Len(Snaps) - 1].nodes
        IN MapGet(prev, ExportRoot(prev)).color = "black" => NoChanges(LastSnap.changes)

\* the root was already black before the closing snapshot
C10_Witness ==
  /\ IsInsert /\ ~WasPresent
  /\ Len(Snaps) >= 3
  /\ NoChanges(LastSnap.changes)

\* ----------------------------------------------------------------- C11
\* the value held by node id in an export
ValueOfId(ex, id) == MapGet(ex, id).value

\* the call was the third insert into a new tree, of values a < b < c in
\* that order: two nodes were created, both are in the tree, and the first
\* holds the smaller value
ThirdAscendingInsert ==
  /\ IsInsert
  /\ lastOp.counterBefore = 2
  /\ Len(lastOp.before) = 2
  /\ ValueOfId(lastOp.before, 0) < ValueOfId(lastOp.before, 1)
  /\ ValueOfId(lastOp.before, 1) < lastOp.value

IsRotation(snap) == snap.description[1] \in {"rotateLeft", "rotateRight"}

\* C11: for a < b < c inserted in that order into an empty tree, the record of
\* the third insert holds at least one rotation snapshot, and the final tree
\* has b as black root, a as its red left child and c as its red right child
\* (both leaves).
C11_AscendingTripleRotates ==
  ThirdAscendingInsert =>
     /\ \E i \in 1..Len(Snaps) : IsRotation(Snaps[i])
     /\ root # NULL
     /\ nodes[root].value = ValueOfId(lastOp.before, 1)
     /\ nodes[root].color = "black"
     /\ nodes[root].parent = NULL
     /\ nodes[root].left # NULL /\ nodes[root].right # NULL
     /\ LET l == nodes[nodes[root].left]
            r == nodes[nodes[root].right]
        IN /\ l.value = ValueOfId(lastOp.before, 0) /\ l.color = "red"
           /\ l.left = NULL /\ l.right = NULL /\ l.parent = root
           /\ r.value = lastOp.value /\ r.color = "red"
           /\ r.left = NULL /\ r.right = NULL /\ r.parent = root
     /\ Cardinality(LiveIds) = 3

C11_Witness == ThirdAscendingInsert /\ Cardinality(LiveIds) = 3 /\ lastOp.value = MaxVal

\* ----------------------------------------------------------------- C12
\* C12: every non-cancelled delete closes with exactly one of two snapshots:
\* when the tree became empty, an informational snapshot with an empty export
\* and no highlight (and has(w) is then false for every w); otherwise the
\* root-blackening snapshot, whose export shows a black root.
C12_DeleteClosesEmptyOrBlackRoot ==
  (IsDelete /\ WasPresent) =>
     /\ Len(Snaps) >= 2
     /\ lastOp.label = <<"delete", lastOp.value>>
     /\ LastSnap.nodes = traverse(nodes, root)
     /\ IF root = NULL
        THEN /\ LastSnap.description = <<"empty">>
             /\ LastSnap.nodes = <<>>
             /\ LastSnap.highlightNodeIds = <<>>
             /\ \A w \in Values \cup BuildValues : ~has(w)
        ELSE /\ LastSnap.description = <<"keepRootBlack">>
             /\ LastSnap.nodes # <<>>
             /\ MapGet(LastSnap.nodes, ExportRoot(LastSnap.nodes)).color = "black"
             /\ LastSnap.highlightNodeIds = <<root>>
     /\ \A i \in 1..(Len(Snaps) - 1) :
           Snaps[i].description \notin {<<"empty">>, <<"keepRootBlack">>}

\* the delete of the only node of a tree that had held other nodes before
C12_Witness == IsDelete /\ WasPresent /\ root = NULL /\ lastOp.counterBefore >= 2

\* ----------------------------------------------------------------- C13
\* the ids listed in an export or in one category of a diff
IdsOf(list) == {list[k].id : k \in 1..Len(list)}

\* C13: for any two consecutive snapshots of an operation, every id in the
\* later one's added list is absent from the earlier export and present in
\* the later one, every id in removed is present in the earlier and absent
\* from the later, and every id in recolored or moved is present in both.
C13_DiffIdsMatchExports ==
  \A i \in 2..Len(Snaps) :
     LET prev == IdsOf(Snaps[i - 1].nodes)
         cur == IdsOf(Snaps[i].nodes)
         c == Snaps[i].changes
     IN /\ IdsOf(c.added) \subseteq cur \ prev
        /\ IdsOf(c.removed) \subseteq prev \ cur
        /\ IdsOf(c.recolored) \subseteq prev \cap cur
        /\ IdsOf(c.moved) \subseteq prev \cap cur

\* one operation whose later snapshots list a node in each of the categories
C13_Witness ==
  /\ \E i \in 2..Len(Snaps) : Snaps[i].changes.added # <<>>
  /\ \E i \in 2..Len(Snaps) : Snaps[i].changes.removed # <<>>
  /\ \E i \in 2..Len(Snaps) : Snaps[i].changes.recolored # <<>>
  /\ \E i \in 2..Len(Snaps) : Snaps[i].changes.moved # <<>>

\* ----------------------------------------------------------------- C14
\* the exports of the call just returned: at call time, then at each snapshot
Exports == <<lastOp.before>> \o [i \in 1..Len(Snaps) |-> Snaps[i].nodes]

\* the ids present in both exports
InBoth(previous, current) == IdsOf(previous) \cap IdsOf(current)

ColorDiffers(previous, current, id) == MapGet(previous, id).color # MapGet(current, id).color

RelationDiffers(previous, current, id) ==
  \/ MapGet(previous, id).parentId # MapGet(current, id).parentId
  \/ MapGet(previous, id).leftId # MapGet(current, id).leftId
  \/ MapGet(previous, id).rightId # MapGet(current, id).rightId

\* the four categories hold exactly the ids the contract names, each once
DiffComplete(previous, current) ==
  LET d == diffSnapshots(previous, current)
      both == InBoth(previous, current)
  IN /\ IdsOf(d.added) = IdsOf(current) \ IdsOf(previous)
     /\ IdsOf(d.removed) = IdsOf(previous) \ IdsOf(current)
     /\ IdsOf(d.recolored) = {id \in both : ColorDiffers(previous, current, id)}
     /\ IdsOf(d.moved) = {id \in both : RelationDiffers(previous, current, id)}
     /\ \A id \in both :
           (ColorDiffers(previous, current, id) /\ RelationDiffers(previous, current, id))
              => (id \in IdsOf(d.recolored) /\ id \in IdsOf(d.moved))
     /\ Len(d.added) = Cardinality(IdsOf(d.added))
     /\ Len(d.removed) = Cardinality(IdsOf(d.removed))
     /\ Len(d.recolored) = Cardinality(IdsOf(d.recolored))
     /\ Len(d.moved) = Cardinality(IdsOf(d.moved))
     /\ \A k \in 1..Len(d.recolored) :
           /\ d.recolored[k].from = MapGet(previous, d.recolored[k].id).color
           /\ d.recolored[k].to = MapGet(current, d.recolored[k].id).color

\* C14: diff(previous, current) is complete and independent per category:
\* recolored holds exactly the ids present in both exports whose color
\* differs, moved exactly the ids present in both whose parent, left or right
\* id differs, and a node that changed both is in both lists.  (The function
\* is applied to every ordered pair of exports of the call just returned.)
C14_DiffCompletePerCategory ==
  \A i \in 1..Len(Exports) : \A j \in 1..Len(Exports) :
     i < j => DiffComplete(Exports[i], Exports[j])

\* a recorded diff lists one node as both recolored and moved
C14_Witness ==
  \E i \in 1..Len(Snaps) :
     IdsOf(Snaps[i].changes.recolored) \cap IdsOf(Snaps[i].changes.moved) # {}

\* ----------------------------------------------------------------- C15
\* every snapshot after the first carries the diff against the snapshot
\* right before it in the same record
LaterDiffsAgainstPreceding ==
  \A i \in 2..Len(Snaps) :
     Snaps[i].changes = diffSnapshots(Snaps[i - 1].nodes, Snaps[i].nodes)

\* C15 as stated: the diff of the first snapshot of every operation is taken
\* against the empty node set, so every node of its export is in its added
\* list; the diff of every later snapshot is taken against the preceding one.
C15_Original ==
  Len(Snaps) >= 1 =>
     /\ Snaps[1].changes = diffSnapshots(<<>>, Snaps[1].nodes)
     /\ IdsOf(Snaps[1].changes.added) = IdsOf(Snaps[1].nodes)
     /\ LaterDiffsAgainstPreceding

\* C15 amended: the diff of the first snapshot of every operation is taken
\* against the export of the tree as it was when the operation was called, so
\* its added list holds only the nodes the tree did not have then; the diff of
\* every later snapshot is taken against the preceding snapshot of the record.
C15_FirstDiffAgainstCallTimeTree ==
  Len(Snaps) >= 1 =>
     /\ Snaps[1].changes = diffSnapshots(lastOp.before, Snaps[1].nodes)
     /\ IdsOf(Snaps[1].changes.added) = IdsOf(Snaps[1].nodes) \ IdsOf(lastOp.before)
     /\ LaterDiffsAgainstPreceding

\* an insert into a tree of two or more nodes that went through a fix-up step
C15_Witness ==
  /\ IsInsert /\ ~WasPresent
  /\ Len(lastOp.before) >= 2
  /\ Len(Snaps) >= 3
  /\ Len(Snaps[1].changes.added) = 1
  /\ Snaps[1].changes.moved # <<>>

\* ----------------------------------------------------------------- C16
\* C16: in every snapshot of every operation, each id of the highlight list
\* is the id of a node of that snapshot's export.
C16_HighlightsArePresent ==
  \A i \in 1..Len(Snaps) :
     \A k \in 1..Len(Snaps[i].highlightNodeIds) :
        Snaps[i].highlightNodeIds[k] \in IdsOf(Snaps[i].nodes)

\* a delete that replaced the target by its right child: the call passes the
\* target, the child and the parent, and the snapshot keeps the last two
C16_Witness ==
  /\ IsDelete /\ WasPresent
  /\ Target.rightId # NULL /\ Target.parentId # NULL
  /\ \E i \in 1..Len(Snaps) :
        /\ Snaps[i].description = <<"replaceByRight", lastOp.value>>
        /\ Snaps[i].highlightNodeIds = <<Target.rightId, Target.parentId>>
        /\ Target.id \notin IdsOf(Snaps[i].nodes)

\* ----------------------------------------------------------------- C17
\* what was observed at the pushes of the call just returned
Trace == lastOp.trace

RECURSIVE Shape(_, _)
Shape(ns, n) ==
  IF n = NULL THEN <<>>
  ELSE <<ns[n].value, ns[n].color, Shape(ns, ns[n].left), Shape(ns, ns[n].right)>>

\* the same, rebuilt from the ids of an export
RECURSIVE ExportShape(_, _)
ExportShape(ex, id) ==
  IF id = NULL THEN <<>>
  ELSE LET e == MapGet(ex, id)
       IN <<e.value, e.color, ExportShape(ex, e.leftId), ExportShape(ex, e.rightId)>>

\* the ids of an export refer to one another as those of one tree do
ExportLinked(ex) ==
  /\ Cardinality(IdsOf(ex)) = Len(ex)
  /\ \A k \in 1..Len(ex) :
        /\ ex[k].parentId \in IdsOf(ex) \cup {NULL}
        /\ ex[k].leftId \in IdsOf(ex) \cup {NULL}
        /\ ex[k].rightId \in IdsOf(ex) \cup {NULL}
        /\ ex[k].leftId = NULL \/ ex[k].leftId # ex[k].rightId
  /\ \A a \in 1..Len(ex) : \A b \in 1..Len(ex) :
        (ex[a].leftId = ex[b].id \/ ex[a].rightId = ex[b].id) <=> ex[b].parentId = ex[a].id
  /\ ex # <<>> => Cardinality({k \in 1..Len(ex) : ex[k].parentId = NULL}) = 1

\* C18: every snapshot's export round-trips to the live tree it was taken
\* from: each parentId/leftId/rightId names a node of the same export, B is
\* A's leftId or rightId exactly when B's parentId is A, exactly one node has
\* no parentId when the export is not empty, and the tree rebuilt from the ids
\* has the value and color at each position that the live tree had.
C18_ExportRoundTrips ==
  \A k \in 1..Len(Snaps) :
     /\ ExportLinked(Snaps[k].nodes)
     /\ Len(Snaps[k].nodes) = Cardinality(DOMAIN Trace[k].nodes)
     /\ ExportShape(Snaps[k].nodes, ExportRoot(Snaps[k].nodes))
           = Shape(Trace[k].nodes, Trace[k].root)

\* a delete whose fix-up rotated: a snapshot taken after the transplant and
\* the rotation, of a tree that is not yet the final one
C18_Witness ==
  /\ IsDelete /\ WasPresent
  /\ \E k \in 1..(Len(Snaps) - 1) :
        /\ IsRotation(Snaps[k])
        /\ Len(Snaps[k].nodes) >= 4
        /\ Snaps[k].nodes # LastSnap.nodes

\* ----------------------------------------------------------------- C19
\* the ids given to nodes since the tree was new or last reset
CreatedIds == {created[k] : k \in 1..Len(created)}

\* the value an id carries in the tree now
LiveValue(id) == nodes[id].value

\* C19: with no reset in between, every node created gets an id that no node
\* created earlier had, deleted ones included; an insert that is not
\* cancelled creates one node, and an id carries the same value in the tree
\* at call time, in every snapshot of the call and in the tree afterwards.
C19_IdsUniqueAndValuesStable ==
  /\ \A i \in 1..Len(created) : \A j \in 1..Len(created) :
        i # j => created[i] # created[j]
  /\ LiveIds \subseteq CreatedIds
  /\ (IsInsert /\ ~WasPresent) =>
        /\ Len(created) >= 1
        /\ LiveIds \ IdsOf(lastOp.before) = {created[Len(created)]}
        /\ LiveValue(created[Len(created)]) = lastOp.value
        /\ \A k \in 1..Len(Snaps) :
              IdsOf(Snaps[k].nodes) \ IdsOf(lastOp.before) = {created[Len(created)]}
  /\ (IsDelete \/ (IsInsert /\ WasPresent)) =>
        /\ LiveIds \subseteq IdsOf(lastOp.before)
        /\ \A k \in 1..Len(Snaps) : IdsOf(Snaps[k].nodes) \subseteq IdsOf(lastOp.before)
  /\ \A i \in 1..Len(Exports) : \A j \in 1..Len(Exports) :
        \A id \in IdsOf(Exports[i]) \cap IdsOf(Exports[j]) :
           MapGet(Exports[i], id).value = MapGet(Exports[j], id).value
  /\ \A i \in 1..Len(Exports) :
        \A id \in IdsOf(Exports[i]) \cap LiveIds :
           MapGet(Exports[i], id).value = LiveValue(id)

\* an insert after a delete, into a tree that still holds two nodes or more
C19_Witness ==
  /\ IsInsert /\ ~WasPresent
  /\ Len(created) > Cardinality(LiveIds)
  /\ Len(lastOp.before) >= 2
  /\ Len(Snaps) >= 3

\* ----------------------------------------------------------------- C20
IsReset == lastOp.op = "reset"

\* the record and tree insert(v) gives when called in state st
InsertOutcome(st, v) ==
  LET after == Call(st, "insert", v)
  IN [root |-> after.root, nodes |-> after.nodes, nodeCounter |-> after.nodeCounter,
      label |-> after.lastOp.label, snapshots |-> after.lastOp.snapshots]

\* C20: reset() on any reachable tree empties it (has(w) is false for every
\* w), produces no snapshot and restarts the id counter: the next insert
\* gives its node the id the first node of a new tree gets.
C20_ResetEmptiesAndRestartsIds ==
  IsReset =>
     /\ root = NULL
     /\ LiveIds = {}
     /\ \A w \in Values : ~has(w)
     /\ lastOp.snapshots = <<>>
     /\ nodeCounter = 0
     /\ \A v \in Values :
           /\ InsertOutcome(State, v) = InsertOutcome(Empty("none"), v)
           /\ InsertOutcome(State, v).root = 0

\* the reset of a tree of two or more nodes that had lost a node before
C20_Witness ==
  /\ IsReset
  /\ Len(lastOp.before) >= 2
  /\ lastOp.counterBefore > Len(lastOp.before)

\* ------------------------------------------------------- C21
\* C21: every insert and delete call returns: its fix-up loop is left after
\* at most one pass per node of the tree (never by the model giving up at
\* MaxPasses), and the returned record holds at least one snapshot
C21_CallsReturnWithSnapshot ==
  (IsInsert \/ IsDelete) =>
    /\ lastOp.passes < MaxPasses
    /\ lastOp.passes <= Len(lastOp.before) + 1
    /\ Len(Snaps) >= 1

\* an insert whose fix-up loop was entered twice before it returned
C21_Witness ==
  /\ IsInsert
  /\ lastOp.passes >= 2
  /\ Len(Snaps) >= 3

\* ------------------------------------------------------- C22
\* black height below id in the tree rebuilt from an export (-1: not uniform)
RECURSIVE ExportBlackHeight(_, _)
ExportBlackHeight(ex, id) ==
  IF id = NULL THEN 0
  ELSE LET e == MapGet(ex, id)
           l == ExportBlackHeight(ex, e.leftId)
           r == ExportBlackHeight(ex, e.rightId)
       IN IF l = -1 \/ r = -1 \/ l # r THEN -1
          ELSE l + (IF e.color = "black" THEN 1 ELSE 0)

\* the red-black invariants, read from an export
ExportRedBlack(ex) ==
  /\ \A i \in 1..Len(ex) : ex[i].color \in {"red", "black"}
  /\ \A i \in 1..Len(ex) : ex[i].parentId = NULL => ex[i].color = "black"
  /\ \A i \in 1..Len(ex) :
       (ex[i].color = "red" /\ ex[i].parentId # NULL) =>
          MapGet(ex, ex[i].parentId).color = "black"
  /\ ExportBlackHeight(ex, ExportRoot(ex)) # -1

\* the node whose place is vacated by the delete: the successor when the
\* target has two children, the target itself otherwise
Vacated ==
  IF Target.leftId # NULL /\ Target.rightId # NULL
  THEN EntryOfValue(lastOp.before, SuccessorValue)
  ELSE Target

ZigZagAt(k) ==
  /\ k + 1 <= Len(Snaps)
  /\ IsRotation(Snaps[k]) /\ IsRotation(Snaps[k + 1])
  /\ Snaps[k].description[1] # Snaps[k + 1].description[1]

\* C23: after the two rotations of a zig-zag correction (uncle black or
\* absent) the corrected node roots the subtree the grandparent rooted, is
\* black, and has its former parent and former grandparent as its two red
\* children
C23_ZigZagEndsBlackOverTwoReds ==
  IsInsert =>
    \A k \in 1..(Len(Snaps) - 1) : ZigZagAt(k) =>
      LET ex == Snaps[k + 1].nodes
          p == EntryOfValue(ex, Snaps[k].description[2])
          g == EntryOfValue(ex, Snaps[k + 1].description[2])
          gOld == EntryOfValue(Exports[k], Snaps[k + 1].description[2])
      IN /\ p.parentId # NULL
         /\ p.parentId = g.parentId
         /\ LET n == MapGet(ex, p.parentId)
            IN /\ n.parentId = gOld.parentId
               /\ {n.leftId, n.rightId} = {p.id, g.id}
               /\ n.color = "black"
               /\ p.color = "red"
               /\ g.color = "red"

\* ------------------------------------------------------- C24
\* snapshot k is the one recorded by a recoloring pass of the insert fix-up
IsRecolorAt(k) == Snaps[k].description[1] = "recolor"

\* in export ex, the node with this id is not the root and its parent is red
HasRedParent(ex, id) ==
  /\ MapGet(ex, id).parentId # NULL
  /\ MapGet(ex, MapGet(ex, id).parentId).color = "red"

\* C24: a pass of the insert fix-up that finds parent and uncle red records
\* one snapshot whose diff recolors exactly the parent (to black), the uncle
\* (to black) and the grandparent (to red), with nothing added, removed or
\* moved, and the correction goes on from the grandparent: another fix-up
\* snapshot follows exactly when the grandparent has a red parent that is
\* not the root
C24_RecolorStepOnlyRecolors ==
  IsInsert =>
    \A k \in 1..Len(Snaps) : IsRecolorAt(k) =>
      LET c == Snaps[k].changes
          h == Snaps[k].highlightNodeIds
          ex == Snaps[k].nodes
          old == Exports[k]
      IN /\ Len(h) = 3
         /\ MapGet(ex, h[1]).parentId = h[3]
         /\ MapGet(ex, h[2]).parentId = h[3]
         /\ h[1] # h[2]
         /\ c.added = <<>> /\ c.removed = <<>> /\ c.moved = <<>>
         /\ Len(c.recolored) = 3
         /\ IdsOf(c.recolored) = {h[1], h[2], h[3]}
         /\ \A j \in 1..3 :
              /\ c.recolored[j].from = MapGet(old, c.recolored[j].id).color
              /\ c.recolored[j].to = (IF c.recolored[j].id = h[3] THEN "red" ELSE "black")
         /\ k < Len(Snaps)
         /\ (Snaps[k + 1].description[1] \in {"recolor", "rotateLeft", "rotateRight"})
              <=> (HasRedParent(ex, h[3])
                   /\ MapGet(ex, MapGet(ex, h[3]).parentId).parentId # NULL)

\* ------------------------------------------------------- C25
\* the values of the nodes created so far, in the order of their creation
\* (read in states reached by inserts only, where every created node is live)
InsertedValues == [i \in 1..Len(created) |-> nodes[created[i]].value]

\* the state after inserting the negated values of seq, in order, into the
\* empty tree
RECURSIVE NegatedRun(_)
NegatedRun(seq) ==
  IF seq = <<>> THEN Empty("none")
  ELSE Let(NegatedRun(SubSeq(seq, 1, Len(seq) - 1)), LAMBDA st :
         Call(st, "insert", 0 - seq[Len(seq)]))

\* a shape with left and right swapped and every value negated
RECURSIVE Mirrored(_)
Mirrored(shape) ==
  IF shape = <<>> THEN <<>>
  ELSE <<0 - shape[1], shape[2], Mirrored(shape[4]), Mirrored(shape[3])>>

\* the same calls made with negated values: the inserts that created the
\* nodes before the last call, then the last call itself
MirrorCall ==
  LET fresh == lastOp.counterBefore < nodeCounter
      prefix == IF fresh THEN SubSeq(InsertedValues, 1, Len(created) - 1)
                ELSE InsertedValues
  IN Call(NegatedRun(prefix), "insert", 0 - lastOp.value)

\* C25: inserting the negated values in the same order gives the mirror
\* image of the tree (same colors, left and right swapped) and, for the last
\* insert, a record with the same number of snapshots
C25_InsertIsMirrorSymmetric ==
  IsInsert =>
    Let(MirrorCall, LAMBDA mir :
      /\ Shape(mir.nodes, mir.root) = Mirrored(Shape(nodes, root))
      /\ Len(mir.lastOp.snapshots) = Len(Snaps))

\* a fourth insert corrected by the two rotations of a zig-zag whose mirror
\* image is corrected by the opposite two
C25_Witness ==
  /\ IsInsert
  /\ Cardinality(LiveIds) = 4
  /\ \E k \in 1..Len(Snaps) : ZigZagAt(k) /\ Snaps[k].description[1] = "rotateLeft"
  /\ \E k \in 1..Len(MirrorCall.lastOp.snapshots) :
       MirrorCall.lastOp.snapshots[k].description[1] = "rotateRight"

\* ------------------------------------------------------- C26
\* snapshot k of a delete announces a rotation made because the sibling has a
\* red child: to the right when the left child is red, to the left otherwise
IsNephewRotationAt(k) == Snaps[k].description[1] \in {"siblingLeftRed", "siblingRightRed"}

\* C26: each snapshot of a red-nephew rotation (of the sibling, or the final
\* one of the parent) is recorded after that rotation: in its export the
\* rotated node (the first highlighted id) hangs below the child that was on
\* the side it is rotated away from, as the child on the other side
C26_NephewSnapshotsAfterRotation ==
  IsDelete =>
    \A k \in 1..Len(Snaps) : IsNephewRotationAt(k) =>
      LET p == Snaps[k].highlightNodeIds[1]
          old == MapGet(Exports[k], p)
          new == MapGet(Snaps[k].nodes, p)
      IN IF Snaps[k].description[1] = "siblingLeftRed"
         THEN /\ old.leftId # NULL
              /\ new.parentId = old.leftId
              /\ MapGet(Snaps[k].nodes, old.leftId).rightId = p
         ELSE /\ old.rightId # NULL
              /\ new.parentId = old.rightId
              /\ MapGet(Snaps[k].nodes, old.rightId).leftId = p

\* ------------------------------------------------------- C27
\* a sequence of numbers is strictly increasing
StrictlyIncreasing(s) == \A i \in 1..(Len(s) - 1) : s[i] < s[i + 1]

\* the tree rebuilt from an export holds every entry of the export and is a
\* binary search tree without duplicates
ExportIsSearchTree(ex) ==
  LET io == ExportInOrder(ex, ExportRoot(ex))
  IN Len(io) = Len(ex) /\ StrictlyIncreasing(io)

\* value and color of every node, by id
Paint(ns) == [id \in DOMAIN ns |-> <<ns[id].value, ns[id].color>>]

\* t2 differs from the live tree in relations only
OnlyRelationsChanged(t2) == Paint(t2.nodes) = Paint(nodes)

\* C27: the tree rebuilt from the export of every snapshot is a binary search
\* tree with strictly increasing in-order values; and a rotation or a
\* transplant applied anywhere in a reachable tree changes relations only,
\* never a value or a color, a rotation keeping the in-order sequence too
C27_SnapshotsAreSearchTrees ==
  /\ \A k \in 1..Len(Snaps) : ExportIsSearchTree(Snaps[k].nodes)
  /\ \A x \in LiveIds :
       /\ Let(rotateLeft(Begin(State), x), LAMBDA t2 :
            OnlyRelationsChanged(t2) /\ InOrder(t2.nodes, t2.root) = InOrder(nodes, root))
       /\ Let(rotateRight(Begin(State), x), LAMBDA t2 :
            OnlyRelationsChanged(t2) /\ InOrder(t2.nodes, t2.root) = InOrder(nodes, root))
       /\ \A v \in {NULL, nodes[x].left, nodes[x].right} :
            OnlyRelationsChanged(transplant(Begin(State), x, v))

\* a delete that pulled the successor up from deeper in the right subtree
\* (an intermediate snapshot without it) and rotated while fixing up
C27_Witness ==
  /\ IsDelete
  /\ \E k \in 1..Len(Snaps) : Snaps[k].description[1] = "pullUp"
  /\ lastOp.rotated >= 1
  /\ Cardinality(LiveIds) >= 3

\* ------------------------------------------------------- C28
\* C28: during delete(v) of a present value only the target leaves the node
\* set: no snapshot of the call lists a node as added, and only the target's
\* id is ever listed as removed
C28_OnlyTargetLeaves ==
  (IsDelete /\ WasPresent) =>
    \A k \in 1..Len(Snaps) :
      /\ Snaps[k].changes.added = <<>>
      /\ IdsOf(Snaps[k].changes.removed) \subseteq {Target.id}

\* ------------------------------------------------------- C29
\* the view state of App before any operation was pushed (indices are
\* 0-based, NULL stands for null)
NoHistory == [history |-> <<>>, activeOperationIndex |-> NULL,
              activeSnapshotIndex |-> NULL, message |-> NULL]

\* pushOperation: a record without snapshots is ignored; otherwise it is
\* appended to the history and its last snapshot becomes the one shown; a
\* cancelled operation's last description becomes the message
pushOperation(ui, operation) ==
  IF Len(operation.snapshots) = 0 THEN ui
  ELSE [history |-> Append(ui.history, operation),
        activeOperationIndex |-> Len(ui.history),
        activeSnapshotIndex |-> Len(operation.snapshots) - 1,
        message |-> IF operation.label[1] \in {"insertCancel", "deleteCancel"}
                    THEN operation.snapshots[Len(operation.snapshots)].description
                    ELSE NULL]

\* the view state shows a snapshot (activeSnapshot is not null)
hasActiveSnapshot(ui) ==
  /\ ui.activeOperationIndex # NULL
  /\ ui.activeSnapshotIndex # NULL
  /\ ui.activeOperationIndex + 1 \in 1..Len(ui.history)
  /\ ui.activeSnapshotIndex + 1
       \in 1..Len(ui.history[ui.activeOperationIndex + 1].snapshots)

\* the snapshot shown by a view state that shows one
activeSnapshot(ui) ==
  ui.history[ui.activeOperationIndex + 1].snapshots[ui.activeSnapshotIndex + 1]

\* C29: when insert or delete returns, the export of the record's last
\* snapshot is the serialization of the live tree: the tree is as it was at
\* the last push, and the snapshot shown after pushOperation exports it
C29_LastSnapshotIsLiveTree ==
  (IsInsert \/ IsDelete) =>
    /\ LastSnap.nodes = traverse(nodes, root)
    /\ Trace[Len(Trace)].root = root
    /\ Trace[Len(Trace)].nodes = nodes
    /\ Trace[Len(Trace)].length = Len(Snaps)
    /\ LET ui == pushOperation(NoHistory, [label |-> lastOp.label, snapshots |-> Snaps])
       IN hasActiveSnapshot(ui) /\ activeSnapshot(ui).nodes = traverse(nodes, root)

\* an insert into a tree of two nodes whose closing step recolored the root
C29_Witness ==
  /\ IsInsert
  /\ Cardinality(LiveIds) = 3
  /\ Len(LastSnap.changes.recolored) = 1
  /\ Len(Snaps) >= 4

\* ------------------------------------------------------- C30
\* C30: every rotation called by the fix-ups of insert and delete finds the
\* child it lifts (a right child for rotateLeft, a left child for
\* rotateRight): no rotation call of the call just returned took the early
\* return
C30_RotationsNeverSkipped ==
  (IsInsert \/ IsDelete) => lastOp.skipped = 0

\* a delete whose fix-up rotated twice
C30_Witness ==
  /\ IsDelete
  /\ lastOp.rotated >= 2
  /\ lastOp.skipped = 0

\* ------------------------------------------------------- C31
\* the values of an export, in the order of its entries
ValueSequence(ex) == [i \in 1..Len(ex) |-> ex[i].value]

\* the ids of the tree rebuilt from an export in pre-order: the node, then
\* its left subtree, then its right subtree
RECURSIVE ExportPreOrder(_, _)
ExportPreOrder(ex, id) ==
  IF id = NULL THEN <<>>
  ELSE LET e == MapGet(ex, id)
       IN <<id>> \o ExportPreOrder(ex, e.leftId) \o ExportPreOrder(ex, e.rightId)

\* C31 as stated: the export lists the left subtree first, the node second
\* and the right subtree third, so the values of every snapshot's export are
\* in increasing order
C31_Original ==
  \A k \in 1..Len(Snaps) :
    /\ ValueSequence(Snaps[k].nodes) = ExportInOrder(Snaps[k].nodes, ExportRoot(Snaps[k].nodes))
    /\ StrictlyIncreasing(ValueSequence(Snaps[k].nodes))

\* C31 amended: the export lists the node first, its left subtree second and
\* its right subtree third (pre-order): in every snapshot's export the first
\* entry is the root and the entries follow the pre-order of the tree rebuilt
\* from them
C31_ExportIsPreOrder ==
  \A k \in 1..Len(Snaps) :
    LET ex == Snaps[k].nodes
    IN /\ ex # <<>> => ex[1].parentId = NULL
       /\ [i \in 1..Len(ex) |-> ex[i].id] = ExportPreOrder(ex, ExportRoot(ex))

\* a snapshot of a root with two children: its export starts with the root,
\* so its values are not in increasing order
C31_Witness ==
  \E k \in 1..Len(Snaps) :
    LET ex == Snaps[k].nodes
    IN /\ Len(ex) = 3
       /\ ex[1].leftId # NULL /\ ex[1].rightId # NULL
       /\ ~StrictlyIncreasing(ValueSequence(ex))

====
